---- MODULE Spec2Model ----
(***************************************************************************)
(* Model of src/app.js: the browser form handler submitForm().  One        *)
(* invocation of the async function is one element of Invocations; the     *)
(* page (the output container, the console, the network) is shared.        *)
(*                                                                         *)
(* Text is modelled as sequences: questionsText as a sequence of           *)
(* characters, messages and response bodies as sequences of tokens.        *)
(***************************************************************************)
EXTENDS Integers, Sequences, FiniteSets, TLC

\* ---- bounds -------------------------------------------------------------
NumInv == 2        \* invocations of submitForm that may be started
MaxTicks == 6      \* ticks of one invocation's interval that are explored
MaxLen == 4        \* longest questionsText of the parsing specification

\* ---- program constants --------------------------------------------------
TickMs == 1000     \* setInterval period
WaitMs == 5000     \* setTimeout delay

Invocations == 1..NumInv

\* ---- text helpers -------------------------------------------------------
\* String.prototype.includes on token sequences.
Includes(s, sub) ==
    \E k \in 0..(Len(s) - Len(sub)) : SubSeq(s, k + 1, k + Len(sub)) = sub

\* Characters String.prototype.trim removes.
WhiteSpace == {" ", "\t", "\n"}

\* questionsText.split(","): the pieces between the commas, empty ones kept.
RECURSIVE SplitFrom(_, _, _)
SplitFrom(s, k, cur) ==
    IF k > Len(s) THEN <<cur>>
    ELSE IF s[k] = "," THEN <<cur>> \o SplitFrom(s, k + 1, <<>>)
    ELSE SplitFrom(s, k + 1, Append(cur, s[k]))

Split(s) == SplitFrom(s, 1, <<>>)

\* q.trim(): leading, then trailing white space removed.
RECURSIVE TrimStart(_)
TrimStart(q) ==
    IF q # <<>> /\ Head(q) \in WhiteSpace THEN TrimStart(Tail(q)) ELSE q

RECURSIVE TrimEnd(_)
TrimEnd(q) ==
    IF q # <<>> /\ q[Len(q)] \in WhiteSpace
    THEN TrimEnd(SubSeq(q, 1, Len(q) - 1)) ELSE q

Trim(q) == TrimEnd(TrimStart(q))

\* Array.prototype.map / filter for the two callbacks of line 32.
MapTrim(ps) == [k \in 1..Len(ps) |-> Trim(ps[k])]

Truthy(q) == q # <<>>

\* A filter that keeps every piece.
FilterNothing(ps) == ps

FilterTruthy(ps) == SelectSeq(ps, Truthy)

\* Line 32 without the map(q => q.trim()).
ParseQuestionsUntrimmed(questionsText) == FilterTruthy(Split(questionsText))

\* const questions = questionsText.split(",").map(q => q.trim()).filter(q => q)
ParseQuestions(questionsText) == FilterTruthy(MapTrim(Split(questionsText)))

\* ---- JSON ---------------------------------------------------------------
\* Tokens of a response body that are JSON string literals.
StringToks == {"\"answers\"", "\"x\"", "\"y\""}

JString(s) == [type |-> "string", str |-> s, keys |-> <<>>, items |-> <<>>]
JArray(vs) == [type |-> "array", str |-> "", keys |-> <<>>, items |-> vs]
JObject(ks, vs) == [type |-> "object", str |-> "", keys |-> ks, items |-> vs]

ParseFail == [ok |-> FALSE, val |-> JString(""), next |-> 0]

\* JSON.parse restricted to strings, arrays and objects: recursive descent
\* over the tokens of the body, from position k.
RECURSIVE ParseValue(_, _)
RECURSIVE ParseElements(_, _, _)
RECURSIVE ParseMembers(_, _, _, _)
ParseValue(t, k) ==
    IF k > Len(t) THEN ParseFail
    ELSE IF t[k] \in StringToks
         THEN [ok |-> TRUE, val |-> JString(t[k]), next |-> k + 1]
    ELSE IF t[k] = "["
         THEN IF k + 1 <= Len(t) /\ t[k + 1] = "]"
              THEN [ok |-> TRUE, val |-> JArray(<<>>), next |-> k + 2]
              ELSE ParseElements(t, k + 1, <<>>)
    ELSE IF t[k] = "{"
         THEN IF k + 1 <= Len(t) /\ t[k + 1] = "}"
              THEN [ok |-> TRUE, val |-> JObject(<<>>, <<>>), next |-> k + 2]
              ELSE ParseMembers(t, k + 1, <<>>, <<>>)
    ELSE ParseFail

ParseElements(t, k, acc) ==
    LET r == ParseValue(t, k) IN
    IF ~r.ok \/ r.next > Len(t) THEN ParseFail
    ELSE IF t[r.next] = ","
         THEN ParseElements(t, r.next + 1, Append(acc, r.val))
    ELSE IF t[r.next] = "]"
         THEN [ok |-> TRUE, val |-> JArray(Append(acc, r.val)), next |-> r.next + 1]
    ELSE ParseFail

ParseMembers(t, k, ks, vs) ==
    IF k + 1 > Len(t) THEN ParseFail
    ELSE IF t[k] \notin StringToks \/ t[k + 1] # ":" THEN ParseFail
    ELSE LET r == ParseValue(t, k + 2) IN
         IF ~r.ok \/ r.next > Len(t) THEN ParseFail
         ELSE IF t[r.next] = ","
              THEN ParseMembers(t, r.next + 1, Append(ks, t[k]), Append(vs, r.val))
         ELSE IF t[r.next] = "}"
              THEN [ok |-> TRUE,
                    val |-> JObject(Append(ks, t[k]), Append(vs, r.val)),
                    next |-> r.next + 1]
         ELSE ParseFail

\* The value queryRes.json() resolves with, or ok = FALSE when it rejects
\* with a SyntaxError.
JSONparse(t) ==
    LET r == ParseValue(t, 1) IN
    IF r.ok /\ r.next = Len(t) + 1 THEN r ELSE ParseFail

Indent(n) == [k \in 1..n |-> "  "]

\* JSON.stringify(data, null, 2) at nesting depth n, as tokens.
RECURSIVE Stringify(_, _)
RECURSIVE StringifyItems(_, _, _)
Stringify(v, n) ==
    IF v.type = "string" THEN <<v.str>>
    ELSE LET open == IF v.type = "array" THEN "[" ELSE "{"
             close == IF v.type = "array" THEN "]" ELSE "}"
         IN IF v.items = <<>> THEN <<open, close>>
            ELSE <<open>> \o StringifyItems(v, 1, n + 1)
                          \o <<"\n">> \o Indent(n) \o <<close>>

StringifyItems(v, k, n) ==
    IF k > Len(v.items) THEN <<>>
    ELSE <<"\n">> \o Indent(n)
         \o (IF v.type = "object" THEN <<v.keys[k], ":", " ">> ELSE <<>>)
         \o Stringify(v.items[k], n)
         \o (IF k < Len(v.items) THEN <<",">> ELSE <<>>)
         \o StringifyItems(v, k + 1, n)

\* ---- the page and the environment ---------------------------------------
\* Values of the two input fields.  "" and <<>> are the empty (falsy) ones.
Urls == {"", "https://doc"}

ExampleText == <<"a", ",", " ", "b", " ", ",", ",", "c">>      \* "a, b ,,c"

QuestionTexts == {<<>>, ExampleText, <<" ", ",">>}

\* HTTP statuses of a response; queryRes.ok is status in 200..299.
Statuses == {200, 500}

ResponseOk(status) == status \in 200..299

ExampleBody == <<"{", "\"answers\"", ":", "[", "\"x\"", "]", "}">>

\* Response bodies, as tokens.
Bodies ==
    { ExampleBody,
      <<"[", "\"x\"", ",", "\"y\"", "]">>,
      <<"server", "exploded">>,
      <<"Failed", "to", "fetch">> }

FailedToFetch == <<"Failed", "to", "fetch">>

NoErr == [name |-> "", message |-> <<>>]

\* What fetch() rejects with when the request cannot be sent or received:
\* a TypeError whose message is the engine's (Chromium, Gecko, WebKit).
FetchErrors ==
    { [name |-> "TypeError", message |-> FailedToFetch],
      [name |-> "TypeError",
       message |-> <<"NetworkError", "when", "attempting", "to", "fetch", "resource.">>],
      [name |-> "TypeError", message |-> <<"Load", "failed">>] }

\* What queryRes.text() / queryRes.json() reject with when the body stream
\* breaks.
BodyErrors == { [name |-> "TypeError", message |-> <<"network", "error">>] }

\* new Error(`Query failed: ${await queryRes.text()}`)
QueryFailed(text) == [name |-> "Error", message |-> <<"Query", "failed:">> \o text]

\* The SyntaxError of queryRes.json() on a body that is not JSON.
JsonSyntaxError(body) ==
    [name |-> "SyntaxError",
     message |-> IF body = <<>>
                 THEN <<"Unexpected", "end", "of", "JSON", "input">>
                 ELSE <<"Unexpected", "token">> \o body
                      \o <<"is", "not", "valid", "JSON">>]

\* ---- renders of the output container ------------------------------------
\* responseBox.innerHTML as a record: which markup it is, which invocation
\* wrote it, the text of the element with id timerSpan (<<>> when the markup
\* has none), the elapsed figure of the answer header, and the text content.
SecondsText(n) == <<n, "s">>

InitialRender ==
    [kind |-> "initial", by |-> 0, timerSpan |-> <<>>, elapsed |-> <<>>,
     content |-> <<>>]

ThinkingRender(i) ==
    [kind |-> "thinking", by |-> i, timerSpan |-> SecondsText(0),
     elapsed |-> <<>>, content |-> <<>>]

\* A one-shot that writes the "thinking" markup again.
StillWorkingRenderAsThinking(i, t) ==
    [kind |-> "thinking", by |-> i, timerSpan |-> SecondsText(t),
     elapsed |-> <<>>, content |-> <<>>]

StillWorkingRender(i, t) ==
    [kind |-> "still", by |-> i, timerSpan |-> SecondsText(t),
     elapsed |-> <<>>, content |-> <<>>]

\* An answer header that counts the second in progress.
AnswerRenderNextSecond(i, t, d) ==
    [kind |-> "answer", by |-> i, timerSpan |-> <<>>,
     elapsed |-> SecondsText(t + 1), content |-> Stringify(d, 0)]

AnswerRender(i, t, d) ==
    [kind |-> "answer", by |-> i, timerSpan |-> <<>>,
     elapsed |-> SecondsText(t), content |-> Stringify(d, 0)]

ConnectMessage == <<"Could", "not", "connect", "to", "backend", "server.">>

\* The test of line 60 without the instanceof.
IsFetchFailureByMessage(e) == Includes(e.message, FailedToFetch)

\* err instanceof TypeError && err.message.includes("Failed to fetch")
IsFetchFailure(e) == e.name = "TypeError" /\ Includes(e.message, FailedToFetch)

\* An error render that always shows the error's own message.
ErrorRenderOwnMessage(i, e) ==
    [kind |-> "error", by |-> i, timerSpan |-> <<>>, elapsed |-> <<>>,
     content |-> e.message]

ErrorRender(i, e) ==
    [kind |-> "error", by |-> i, timerSpan |-> <<>>, elapsed |-> <<>>,
     content |-> IF IsFetchFailure(e) THEN ConnectMessage ELSE e.message]

\* An updateTimer that leaves the text as it is.
UpdateTimerSkipped(box, t) == box

\* An updateTimer without the test of line 16: it writes the text whatever
\* the page shows.
UpdateTimerUnguarded(box, t) == [box EXCEPT !.timerSpan = SecondsText(t)]

\* updateTimer(): the element with id timerSpan, if the page has one, gets
\* the text timer + 's'.
UpdateTimer(box, t) ==
    IF box.timerSpan # <<>> THEN [box EXCEPT !.timerSpan = SecondsText(t)]
    ELSE box

\* A clearInterval that is never made.
ClearIntervalSkipped(h) == h

\* A clearTimeout that is never made.
ClearTimeoutSkipped(h) == h

\* clearTimeout / clearInterval on a handle.
ClearTimeout(h) == IF h = "armed" THEN "cleared" ELSE h

ClearInterval(h) == IF h = "active" THEN "cleared" ELSE h

\* A clause that handles TypeErrors and rethrows the rest.
CaughtTypeErrorsOnly(e) == e.name = "TypeError"

\* try { ... } catch (err): the clause catches whatever is thrown.
Caught(e) == TRUE

\* ---- state ---------------------------------------------------------------
VARIABLES
    pc,              \* per invocation: where the async function stands
    documentUrl,     \* per invocation: const documentUrl
    questionsText,   \* per invocation: const questionsText
    timer,           \* per invocation: let timer
    timerInterval,   \* per invocation: handle of setInterval
    waitingTimeout,  \* per invocation: handle of setTimeout
    queryRes,        \* per invocation: the response, once fetch resolved
    err,             \* per invocation: the error the catch clause received
    promise,         \* per invocation: the promise submitForm returned
    fetchLog,        \* per invocation: the requests handed to fetch()
    consoleErrors,   \* per invocation: what it passed to console.error
    alerts,          \* per invocation: number of alert() dialogs
    ticks,           \* per invocation: firings of its interval callback
    responseBox,     \* the output container (shared by all invocations)
    parseIn,         \* parsing specification: the input text
    parseOut,        \* parsing specification: the derived questions
    parseDone        \* parsing specification: whether parseOut is computed

vars == <<pc, documentUrl, questionsText, timer, timerInterval, waitingTimeout,
          queryRes, err, promise, fetchLog, consoleErrors, alerts, ticks,
          responseBox, parseIn, parseOut, parseDone>>

parseVars == <<parseIn, parseOut, parseDone>>

NoResponse == [state |-> "none", status |-> 0, read |-> FALSE, body |-> <<>>]

Init ==
    /\ pc = [i \in Invocations |-> "idle"]
    /\ documentUrl = [i \in Invocations |-> ""]
    /\ questionsText = [i \in Invocations |-> <<>>]
    /\ timer = [i \in Invocations |-> 0]
    /\ timerInterval = [i \in Invocations |-> "none"]
    /\ waitingTimeout = [i \in Invocations |-> "none"]
    /\ queryRes = [i \in Invocations |-> NoResponse]
    /\ err = [i \in Invocations |-> NoErr]
    /\ promise = [i \in Invocations |-> "none"]
    /\ fetchLog = [i \in Invocations |-> <<>>]
    /\ consoleErrors = [i \in Invocations |-> <<>>]
    /\ alerts = [i \in Invocations |-> 0]
    /\ ticks = [i \in Invocations |-> 0]
    /\ responseBox = InitialRender
    /\ parseIn = <<>>
    /\ parseOut = <<>>
    /\ parseDone = FALSE

\* ---- submitForm ----------------------------------------------------------
\* A catch block whose handles are page-wide: it clears the timers of every
\* invocation.
CatchBlockClearingAll(i, e) ==
    /\ err' = [err EXCEPT ![i] = e]
    /\ pc' = [pc EXCEPT ![i] = "done"]
    /\ consoleErrors' = [consoleErrors EXCEPT ![i] = Append(@, e)]
    /\ waitingTimeout' = [j \in Invocations |-> ClearTimeout(waitingTimeout[j])]
    /\ timerInterval' = [j \in Invocations |-> ClearInterval(timerInterval[j])]
    /\ responseBox' = ErrorRender(i, e)
    /\ promise' = [promise EXCEPT ![i] = "fulfilled"]

\* A catch block without the clearTimeout and clearInterval of lines 58-59.
CatchBlockWithoutClear(i, e) ==
    /\ err' = [err EXCEPT ![i] = e]
    /\ pc' = [pc EXCEPT ![i] = "done"]
    /\ consoleErrors' = [consoleErrors EXCEPT ![i] = Append(@, e)]
    /\ responseBox' = ErrorRender(i, e)
    /\ promise' = [promise EXCEPT ![i] = "fulfilled"]
    /\ UNCHANGED <<waitingTimeout, timerInterval>>

\* Lines 56-65: the catch block, entered with the thrown error e.  An error
\* the clause did not catch would reject the promise instead.
CatchBlock(i, e) ==
    /\ err' = [err EXCEPT ![i] = e]
    /\ pc' = [pc EXCEPT ![i] = "done"]
    /\ IF Caught(e)
       THEN /\ consoleErrors' = [consoleErrors EXCEPT ![i] = Append(@, e)]
            /\ waitingTimeout' = [waitingTimeout EXCEPT ![i] = ClearTimeout(@)]
            /\ timerInterval' = [timerInterval EXCEPT ![i] = ClearInterval(@)]
            /\ responseBox' = ErrorRender(i, e)
            /\ promise' = [promise EXCEPT ![i] = "fulfilled"]
       ELSE /\ promise' = [promise EXCEPT ![i] = "rejected"]
            /\ UNCHANGED <<consoleErrors, waitingTimeout, timerInterval, responseBox>>

\* Line 6 with && for ||.
InvalidBoth(url, text) == url = "" /\ text = <<>>

\* Line 6: !documentUrl || !questionsText
Invalid(url, text) == url = "" \/ text = <<>>

\* Lines 1-45: a call of submitForm up to its first await.  The inputs are
\* read from the two fields.  Slot i is free when no invocation has used it
\* or the one that did has returned; the new invocation has fresh locals.
\* Slots are taken in order.
Submit(i) ==
    /\ pc[i] \in {"idle", "done"}
    /\ \A j \in 1..(i - 1) : pc[j] # "idle"
    /\ \E url \in Urls, text \in QuestionTexts :
        /\ documentUrl' = [documentUrl EXCEPT ![i] = url]
        /\ questionsText' = [questionsText EXCEPT ![i] = text]
        /\ IF Invalid(url, text)
           THEN /\ alerts' = [alerts EXCEPT ![i] = 1]
                /\ pc' = [pc EXCEPT ![i] = "done"]
                /\ promise' = [promise EXCEPT ![i] = "fulfilled"]
                /\ timerInterval' = [timerInterval EXCEPT ![i] = "none"]
                /\ waitingTimeout' = [waitingTimeout EXCEPT ![i] = "none"]
                /\ fetchLog' = [fetchLog EXCEPT ![i] = <<>>]
                /\ UNCHANGED responseBox
           ELSE /\ responseBox' = ThinkingRender(i)
                /\ timerInterval' = [timerInterval EXCEPT ![i] = "active"]
                /\ waitingTimeout' = [waitingTimeout EXCEPT ![i] = "armed"]
                /\ fetchLog' = [fetchLog EXCEPT ![i] =
                       <<[documents |-> url, questions |-> ParseQuestions(text)]>>]
                /\ pc' = [pc EXCEPT ![i] = "awaitFetch"]
                /\ promise' = [promise EXCEPT ![i] = "pending"]
                /\ alerts' = [alerts EXCEPT ![i] = 0]
    /\ timer' = [timer EXCEPT ![i] = 0]
    /\ ticks' = [ticks EXCEPT ![i] = 0]
    /\ queryRes' = [queryRes EXCEPT ![i] = NoResponse]
    /\ err' = [err EXCEPT ![i] = NoErr]
    /\ consoleErrors' = [consoleErrors EXCEPT ![i] = <<>>]
    /\ UNCHANGED parseVars

\* Lines 21-24: one firing of the interval callback.  Timer tasks run in the
\* order they fall due: the k-th tick is due at k * TickMs, the one-shot at
\* WaitMs.
Tick(i) ==
    /\ timerInterval[i] = "active"
    /\ timer[i] < MaxTicks
    /\ waitingTimeout[i] = "armed" => (timer[i] + 1) * TickMs <= WaitMs
    /\ timer' = [timer EXCEPT ![i] = @ + 1]
    /\ ticks' = [ticks EXCEPT ![i] = @ + 1]
    /\ responseBox' = UpdateTimer(responseBox, timer[i] + 1)
    /\ UNCHANGED <<pc, documentUrl, questionsText, timerInterval, waitingTimeout,
                   queryRes, err, promise, fetchLog, consoleErrors, alerts,
                   parseVars>>

\* A one-shot that gives up on the request's feedback: it also stops the
\* tick.
TimeoutStoppingTick(i) ==
    /\ waitingTimeout[i] = "armed"
    /\ timerInterval[i] = "active" => (timer[i] + 1) * TickMs >= WaitMs
    /\ waitingTimeout' = [waitingTimeout EXCEPT ![i] = "fired"]
    /\ timerInterval' = [timerInterval EXCEPT ![i] = ClearInterval(@)]
    /\ responseBox' = UpdateTimer(StillWorkingRender(i, timer[i]), timer[i])
    /\ UNCHANGED <<pc, documentUrl, questionsText, timer, queryRes, err,
                   promise, fetchLog, consoleErrors, alerts, ticks, parseVars>>

\* Lines 26-29: the firing of the one-shot callback.
Timeout(i) ==
    /\ waitingTimeout[i] = "armed"
    /\ timerInterval[i] = "active" => (timer[i] + 1) * TickMs >= WaitMs
    /\ waitingTimeout' = [waitingTimeout EXCEPT ![i] = "fired"]
    /\ responseBox' = UpdateTimer(StillWorkingRender(i, timer[i]), timer[i])
    /\ UNCHANGED <<pc, documentUrl, questionsText, timer, timerInterval,
                   queryRes, err, promise, fetchLog, consoleErrors, alerts,
                   ticks, parseVars>>

\* Lines 34-47: fetch() resolves with a response; the handler resumes and
\* goes on to read the body with text() or json().
FetchResolve(i) ==
    /\ pc[i] = "awaitFetch"
    /\ \E status \in Statuses :
        /\ queryRes' = [queryRes EXCEPT ![i] =
               [state |-> "received", status |-> status, read |-> FALSE,
                body |-> <<>>]]
        /\ pc' = [pc EXCEPT ![i] =
               IF ~ResponseOk(status) THEN "awaitText" ELSE "awaitJson"]
    /\ UNCHANGED <<documentUrl, questionsText, timer, timerInterval,
                   waitingTimeout, err, promise, fetchLog, consoleErrors,
                   alerts, responseBox, ticks, parseVars>>

\* Lines 34, 56-65: fetch() rejects.
FetchReject(i) ==
    /\ pc[i] = "awaitFetch"
    /\ \E e \in FetchErrors : CatchBlock(i, e)
    /\ UNCHANGED <<documentUrl, questionsText, timer, queryRes, fetchLog,
                   alerts, ticks, parseVars>>

\* Lines 48, 56-65: queryRes.text() resolves and the Error is thrown.
TextResolve(i) ==
    /\ pc[i] = "awaitText"
    /\ \E body \in Bodies :
        /\ queryRes' = [queryRes EXCEPT ![i].read = TRUE, ![i].body = body]
        /\ CatchBlock(i, QueryFailed(body))
    /\ UNCHANGED <<documentUrl, questionsText, timer, fetchLog, alerts,
                   ticks, parseVars>>

\* Lines 51-54, 56-65: queryRes.json() has read the body: it resolves with
\* the parsed data, or rejects with a SyntaxError.
JsonResolve(i) ==
    /\ pc[i] = "awaitJson"
    /\ \E body \in Bodies :
        /\ queryRes' = [queryRes EXCEPT ![i].read = TRUE, ![i].body = body]
        /\ LET r == JSONparse(body) IN
           IF r.ok
           THEN /\ waitingTimeout' = [waitingTimeout EXCEPT ![i] = ClearTimeout(@)]
                /\ timerInterval' = [timerInterval EXCEPT ![i] = ClearInterval(@)]
                /\ responseBox' = AnswerRender(i, timer[i], r.val)
                /\ pc' = [pc EXCEPT ![i] = "done"]
                /\ promise' = [promise EXCEPT ![i] = "fulfilled"]
                /\ UNCHANGED <<err, consoleErrors>>
           ELSE CatchBlock(i, JsonSyntaxError(body))
    /\ UNCHANGED <<documentUrl, questionsText, timer, fetchLog, alerts,
                   ticks, parseVars>>

\* Lines 48, 51, 56-65: the body stream breaks while text() or json() reads.
BodyReject(i) ==
    /\ pc[i] \in {"awaitText", "awaitJson"}
    /\ \E e \in BodyErrors : CatchBlock(i, e)
    /\ UNCHANGED <<documentUrl, questionsText, timer, queryRes, fetchLog,
                   alerts, ticks, parseVars>>

\* Everything invocation slot i can do.
Step(i) ==
    \/ Submit(i)
    \/ Tick(i)
    \/ Timeout(i)
    \/ FetchResolve(i)
    \/ FetchReject(i)
    \/ TextResolve(i)
    \/ JsonResolve(i)
    \/ BodyReject(i)

\* Any number of submissions, up to NumInv of them in flight together.
Next == \E i \in Invocations : Step(i)

Spec == Init /\ [][Next]_vars

\* The use the handler is designed for: any number of submissions, each made
\* after the previous one has returned.
NextOne == Step(1)

SpecOne == Init /\ [][NextOne]_vars

\* SpecOne with the progress the event loop and the network give a pending
\* invocation: a body being read is delivered or fails.
LiveSpecOne ==
    SpecOne /\ WF_vars(TextResolve(1) \/ JsonResolve(1) \/ BodyReject(1))

\* SpecOne with the progress the event loop gives the timers: a callback
\* that is due runs.  The network is given none: a call may stay pending.
LiveSpecTimers == SpecOne /\ WF_vars(Tick(1)) /\ WF_vars(Timeout(1))

\* ---- question parsing on its own ----------------------------------------
\* Characters of the texts the parsing specification draws.
Alphabet == {"a", "b", ",", " "}

Texts(n) == UNION {[1..k -> Alphabet] : k \in 0..n}

\* The handler state stays as constructed; parseIn is any text of at most
\* MaxLen characters, or the example of the specification.
InitParse ==
    /\ pc = [i \in Invocations |-> "idle"]
    /\ documentUrl = [i \in Invocations |-> ""]
    /\ questionsText = [i \in Invocations |-> <<>>]
    /\ timer = [i \in Invocations |-> 0]
    /\ timerInterval = [i \in Invocations |-> "none"]
    /\ waitingTimeout = [i \in Invocations |-> "none"]
    /\ queryRes = [i \in Invocations |-> NoResponse]
    /\ err = [i \in Invocations |-> NoErr]
    /\ promise = [i \in Invocations |-> "none"]
    /\ fetchLog = [i \in Invocations |-> <<>>]
    /\ consoleErrors = [i \in Invocations |-> <<>>]
    /\ alerts = [i \in Invocations |-> 0]
    /\ ticks = [i \in Invocations |-> 0]
    /\ responseBox = InitialRender
    /\ parseIn \in Texts(MaxLen) \cup {ExampleText}
    /\ parseOut = <<>>
    /\ parseDone = FALSE

\* Line 32 applied to parseIn.
ApplyParse ==
    /\ ~parseDone
    /\ parseOut' = ParseQuestions(parseIn)
    /\ parseDone' = TRUE
    /\ UNCHANGED <<pc, documentUrl, questionsText, timer, timerInterval,
                   waitingTimeout, queryRes, err, promise, fetchLog,
                   consoleErrors, alerts, ticks, responseBox, parseIn>>

NextParse == ApplyParse

SpecParse == InitParse /\ [][NextParse]_vars

\* ---- reference definitions for the claims --------------------------------
Min(S) == CHOOSE x \in S : \A y \in S : x <= y

Max(S) == CHOOSE x \in S : \A y \in S : x >= y

CommaPositions(s) == {k \in 1..Len(s) : s[k] = ","}

\* Position of the n-th comma of s; 0 before the first piece and Len(s) + 1
\* after the last.
CommaAt(s, n) ==
    IF n = 0 THEN 0
    ELSE IF n > Cardinality(CommaPositions(s)) THEN Len(s) + 1
    ELSE CHOOSE c \in CommaPositions(s) :
             Cardinality({d \in CommaPositions(s) : d <= c}) = n

\* The p-th comma-separated piece of s.
Piece(s, p) == SubSeq(s, CommaAt(s, p - 1) + 1, CommaAt(s, p) - 1)

\* A piece without its leading and trailing white space.
Stripped(q) ==
    LET solid == {k \in 1..Len(q) : q[k] \notin WhiteSpace} IN
    IF solid = {} THEN <<>> ELSE SubSeq(q, Min(solid), Max(solid))

NonEmpty(q) == Len(q) > 0

\* The comma-split, trimmed, empty-filtered decomposition of a text.
Decomposition(s) ==
    SelectSeq([p \in 1..(Cardinality(CommaPositions(s)) + 1) |->
                  Stripped(Piece(s, p))], NonEmpty)

\* The invocation in slot i passed validation.
Validated(i) == pc[i] # "idle" /\ alerts[i] = 0

\* The invocation in slot i passed validation and has returned.
Completed(i) == pc[i] = "done" /\ Validated(i)

Terminal(box) == box.kind \in {"answer", "error"}

Indicator(box) == box.kind \in {"thinking", "still"}

\* Some variable of slot i changes in the step.
Changed(i) ==
    <<pc[i], documentUrl[i], questionsText[i], alerts[i], timer[i],
      timerInterval[i], waitingTimeout[i], fetchLog[i], promise[i]>>'
    # <<pc[i], documentUrl[i], questionsText[i], alerts[i], timer[i],
        timerInterval[i], waitingTimeout[i], fetchLog[i], promise[i]>>

\* ---- claims --------------------------------------------------------------

\* C1: once an invocation that passed validation has completed (on any exit
\* path), its interval is cleared and its one-shot is cleared or has fired;
\* a terminal render written by an invocation is never on the page while one
\* of that invocation's timers is still active; and after completion none of
\* its callbacks runs: its tick count, its counter and its handles stay as
\* they are and no write to the output container is its own.
C1_TimersInertAfterCompletion ==
    /\ [](\A i \in Invocations :
            /\ Completed(i) =>
                  /\ timerInterval[i] = "cleared"
                  /\ waitingTimeout[i] \in {"cleared", "fired"}
            /\ (Terminal(responseBox) /\ responseBox.by = i) =>
                  /\ timerInterval[i] # "active"
                  /\ waitingTimeout[i] # "armed")
    /\ [][\A i \in Invocations :
            (Completed(i) /\ Completed(i)') =>
                  /\ ticks'[i] = ticks[i]
                  /\ timer'[i] = timer[i]
                  /\ timerInterval'[i] = timerInterval[i]
                  /\ waitingTimeout'[i] = waitingTimeout[i]
                  /\ (responseBox' # responseBox => responseBox'.by # i)]_vars

\* An invocation completed with an error after its one-shot had fired.
C1_Witness ==
    \E i \in Invocations :
        /\ Completed(i)
        /\ waitingTimeout[i] = "fired"
        /\ timerInterval[i] = "cleared"
        /\ ticks[i] >= 5
        /\ responseBox.kind = "error"

\* C2: a call of submitForm with an empty documentUrl or questionsText
\* alerts once and returns: it issues no request, starts neither timer and
\* leaves the output container as it was.
C2_InvalidInputsAbort ==
    /\ [](\A i \in Invocations :
            alerts[i] > 0 =>
                  /\ alerts[i] = 1
                  /\ pc[i] = "done"
                  /\ fetchLog[i] = <<>>
                  /\ timerInterval[i] = "none"
                  /\ waitingTimeout[i] = "none")
    /\ [][\A i \in Invocations :
            (/\ pc[i] \in {"idle", "done"}
             /\ Changed(i)
             /\ (documentUrl'[i] = "" \/ questionsText'[i] = <<>>)) =>
                  /\ alerts'[i] = 1
                  /\ pc'[i] = "done"
                  /\ promise'[i] = "fulfilled"
                  /\ fetchLog'[i] = <<>>
                  /\ timerInterval'[i] = "none"
                  /\ waitingTimeout'[i] = "none"
                  /\ responseBox' = responseBox]_vars

\* An invalid submission made while the page shows an earlier answer.
C2_Witness ==
    \E i \in Invocations :
        /\ alerts[i] = 1
        /\ documentUrl[i] = ""
        /\ questionsText[i] # <<>>
        /\ responseBox.kind = "answer"

\* C3: from the call on and after every outcome, an invocation with
\* non-empty inputs has issued exactly one request, whose documents is
\* documentUrl and whose questions is the comma-split, trimmed,
\* empty-filtered decomposition of questionsText.
C3_ExactlyOneRequest ==
    \A i \in Invocations :
        Validated(i) =>
            /\ documentUrl[i] # ""
            /\ questionsText[i] # <<>>
            /\ Len(fetchLog[i]) = 1
            /\ fetchLog[i][1].documents = documentUrl[i]
            /\ fetchLog[i][1].questions = Decomposition(questionsText[i])

\* An invocation on the example text that ended in an error: one request.
C3_Witness ==
    \E i \in Invocations :
        /\ Completed(i)
        /\ err[i] # NoErr
        /\ questionsText[i] = ExampleText
        /\ fetchLog[i][1].questions = <<<<"a">>, <<"b">>, <<"c">>>>

\* C4: the parsed questions are the comma-separated pieces, trimmed, without
\* the empty ones, in their order and with duplicates: no result is empty,
\* holds a comma or starts or ends with white space, and "a, b ,,c" gives
\* ["a", "b", "c"].
C4_ParsedQuestions ==
    parseDone =>
        /\ \A k \in 1..Len(parseOut) :
              /\ parseOut[k] # <<>>
              /\ \A n \in 1..Len(parseOut[k]) : parseOut[k][n] # ","
              /\ parseOut[k][1] \notin WhiteSpace
              /\ parseOut[k][Len(parseOut[k])] \notin WhiteSpace
        /\ parseOut = Decomposition(parseIn)
        /\ parseIn = ExampleText => parseOut = <<<<"a">>, <<"b">>, <<"c">>>>
        /\ parseIn = <<"a", ",", "a">> => parseOut = <<<<"a">>, <<"a">>>>
        /\ parseIn = <<"b", ",", "a">> => parseOut = <<<<"b">>, <<"a">>>>

\* The example text has been parsed.
C4_Witness == parseDone /\ parseIn = ExampleText /\ Len(parseOut) = 3

\* C5: the promise of submitForm never rejects; an error raised after the
\* request was issued ends the invocation with the promise fulfilled and
\* that error, and nothing else, on the console; and the step that raises it
\* writes an error render of this invocation with the error's message or the
\* connectivity message.
C5_ErrorsCaughtLoggedRendered ==
    /\ [](\A i \in Invocations :
            /\ promise[i] # "rejected"
            /\ err[i] = NoErr => consoleErrors[i] = <<>>
            /\ err[i] # NoErr =>
                  /\ pc[i] = "done"
                  /\ promise[i] = "fulfilled"
                  /\ consoleErrors[i] = <<err[i]>>)
    /\ [][\A i \in Invocations :
            (err[i] = NoErr /\ err'[i] # NoErr) =>
                  /\ responseBox'.kind = "error"
                  /\ responseBox'.by = i
                  /\ responseBox'.content \in {err'[i].message, ConnectMessage}]_vars

\* A JSON parse failure was caught, logged and rendered.
C5_Witness ==
    \E i \in Invocations :
        /\ err[i].name = "SyntaxError"
        /\ consoleErrors[i] = <<err[i]>>
        /\ promise[i] = "fulfilled"
        /\ responseBox.kind = "error"

\* C6: a pending body read leads to the completion of the invocation; the
\* completing step writes a terminal render of the invocation, an error one
\* when an error was raised, and no other step writes one; and once the
\* invocation is done the page never shows its "thinking" or "still working"
\* indicator.
C6_SettledCallLeadsToTerminalRender ==
    /\ \A i \in Invocations :
          (pc[i] \in {"awaitText", "awaitJson"}) ~> (pc[i] = "done")
    /\ [][\A i \in Invocations :
            /\ (pc[i] # "done" /\ Completed(i)') =>
                  /\ Terminal(responseBox') /\ responseBox'.by = i
                  /\ err'[i] # NoErr => responseBox'.kind = "error"
            /\ (responseBox' # responseBox /\ Terminal(responseBox')
                  /\ responseBox'.by = i) =>
                  (pc[i] \notin {"idle", "done"} /\ pc'[i] = "done")]_vars
    /\ [](\A i \in Invocations :
            pc[i] = "done" => ~(Indicator(responseBox) /\ responseBox.by = i))

\* An invocation whose one-shot had fired ended in an error render.
C6_Witness ==
    \E i \in Invocations :
        /\ Completed(i)
        /\ queryRes[i].state = "received"
        /\ err[i] # NoErr
        /\ waitingTimeout[i] = "fired"
        /\ responseBox.kind = "error"
        /\ responseBox.by = i

ExamplePretty ==
    <<"{", "\n", "  ", "\"answers\"", ":", " ", "[", "\n", "  ", "  ", "\"x\"",
      "\n", "  ", "]", "\n", "}">>

ArrayPretty == <<"[", "\n", "  ", "\"x\"", ",", "\n", "  ", "\"y\"", "\n", "]">>

\* C7: the counter is the number of ticks of the invocation; the step that
\* completes an invocation with parsed JSON writes the answer render whose
\* elapsed figure is "{n}s" for the n ticks fired until then and whose text
\* is the body pretty-printed with an indent of two.
C7_AnswerShowsElapsedAndPrettyJson ==
    /\ [](\A i \in Invocations : timer[i] = ticks[i])
    /\ [][\A i \in Invocations :
            (pc[i] = "awaitJson" /\ pc'[i] = "done" /\ err'[i] = NoErr) =>
                  /\ responseBox'.kind = "answer"
                  /\ responseBox'.by = i
                  /\ responseBox'.timerSpan = <<>>
                  /\ responseBox'.elapsed = <<ticks[i], "s">>
                  /\ ticks'[i] = ticks[i]
                  /\ queryRes'[i].body = ExampleBody =>
                        responseBox'.content = ExamplePretty
                  /\ queryRes'[i].body = <<"[", "\"x\"", ",", "\"y\"", "]">> =>
                        responseBox'.content = ArrayPretty]_vars

\* The example body answered after six ticks, the one-shot having fired.
C7_Witness ==
    \E i \in Invocations :
        /\ Completed(i)
        /\ ticks[i] = 6
        /\ waitingTimeout[i] = "fired"
        /\ responseBox.kind = "answer"
        /\ responseBox.elapsed = <<6, "s">>
        /\ responseBox.content = ExamplePretty

\* C8: an invocation that ended on a response with a non-success status did
\* not parse the body as JSON and its render is an error render, never the
\* answer; when the body was read the message is "Query failed: " followed
\* by the body text and is not the connectivity message.
C8_HttpErrorShowsBodyText ==
    \A i \in Invocations :
        (/\ pc[i] = "done"
         /\ queryRes[i].state = "received"
         /\ queryRes[i].status \notin 200..299) =>
            /\ err[i] # NoErr
            /\ err[i].name # "SyntaxError"
            /\ responseBox.by = i =>
                  /\ responseBox.kind = "error"
                  /\ queryRes[i].read =>
                        /\ Includes(responseBox.content, queryRes[i].body)
                        /\ responseBox.content = <<"Query", "failed:">> \o queryRes[i].body
                        /\ responseBox.content # ConnectMessage
                  /\ queryRes[i].body = <<"server", "exploded">> =>
                        responseBox.content = <<"Query", "failed:", "server", "exploded">>

\* Status 500 with the body "server exploded" has been rendered.
C8_Witness ==
    \E i \in Invocations :
        /\ pc[i] = "done"
        /\ queryRes[i].status = 500
        /\ queryRes[i].read
        /\ queryRes[i].body = <<"server", "exploded">>
        /\ responseBox.by = i
        /\ Includes(responseBox.content, <<"server", "exploded">>)

\* C9: when fetch rejected with a TypeError whose message contains "Failed to
\* fetch", the render of the invocation is the error render with the fixed
\* connectivity message, not the error's message.
C9_FetchFailureShowsConnectMessage ==
    \A i \in Invocations :
        (/\ pc[i] = "done"
         /\ queryRes[i].state = "none"
         /\ err[i].name = "TypeError"
         /\ Includes(err[i].message, <<"Failed", "to", "fetch">>)
         /\ responseBox.by = i) =>
            /\ responseBox.kind = "error"
            /\ responseBox.content =
                  <<"Could", "not", "connect", "to", "backend", "server.">>
            /\ responseBox.content # err[i].message

\* fetch rejected with TypeError "Failed to fetch" and the render is shown.
C9_Witness ==
    \E i \in Invocations :
        /\ pc[i] = "done"
        /\ queryRes[i].state = "none"
        /\ err[i] = [name |-> "TypeError", message |-> <<"Failed", "to", "fetch">>]
        /\ responseBox.by = i
        /\ responseBox.kind = "error"

\* C10: whenever fetch rejected without a response, whatever the text of the
\* error, the render of the invocation is the connectivity message.
C10_EveryTransportErrorShowsConnectMessage ==
    \A i \in Invocations :
        (/\ pc[i] = "done"
         /\ queryRes[i].state = "none"
         /\ err[i] # NoErr
         /\ responseBox.by = i) =>
            responseBox.content =
                <<"Could", "not", "connect", "to", "backend", "server.">>

\* The invocation in slot i is waiting for fetch() or for the body.
Pending(i) == pc[i] \in {"awaitFetch", "awaitText", "awaitJson"}

\* The step is a firing of the interval callback of slot i.
TickFired(i) == ticks'[i] = ticks[i] + 1

\* The step is the firing of the one-shot callback of slot i.
OneShotFired(i) == waitingTimeout[i] = "armed" /\ waitingTimeout'[i] = "fired"

\* C11 as stated: while a terminal render is on the page, no firing of a tick
\* or of a one-shot, of any invocation, changes the output container.
C11_NoTimerAltersTerminalRender ==
    [][\A i \in Invocations :
          (Terminal(responseBox) /\ (TickFired(i) \/ OneShotFired(i))) =>
              responseBox' = responseBox]_vars

\* C11 amended: while a terminal render is on the page, the timers of the
\* invocation that wrote it are not active, no firing of a tick changes the
\* output container, and a one-shot that fires is the one of another
\* invocation, still pending, which replaces the render by its own "still
\* working" message.
C11_OnlyAnotherPendingOneShotAltersTerminalRender ==
    /\ [](\A i \in Invocations :
            (Terminal(responseBox) /\ responseBox.by = i) =>
                  /\ ~Pending(i)
                  /\ timerInterval[i] # "active"
                  /\ waitingTimeout[i] # "armed")
    /\ [][\A i \in Invocations :
            Terminal(responseBox) =>
                  /\ TickFired(i) => responseBox' = responseBox
                  /\ OneShotFired(i) =>
                        /\ i # responseBox.by
                        /\ Pending(i)
                        /\ responseBox'.kind = "still"
                        /\ responseBox'.by = i]_vars

\* The second invocation has rendered its result while the first is still
\* pending with its one-shot due.
C11_Witness ==
    /\ NumInv >= 2
    /\ Terminal(responseBox)
    /\ responseBox.by = 2
    /\ Pending(1)
    /\ waitingTimeout[1] = "armed"
    /\ (timer[1] + 1) * TickMs >= WaitMs

\* C12: the call that passes validation writes the "thinking" message with
\* "0s"; the page shows "thinking" while the one-shot is armed and "still
\* working" once it has fired; the "still working" message appears only in
\* the step in which the one-shot fires, which happens once per invocation,
\* while it is pending and when 5 seconds fall between two ticks; the page
\* never goes from "still working" to "thinking"; and an invocation whose
\* one-shot was cleared unfired never shows "still working".
C12_LoadingPhaseMovesForward ==
    /\ [](\A i \in Invocations :
            /\ (Pending(i) /\ waitingTimeout[i] = "armed") =>
                  (responseBox.kind = "thinking" /\ responseBox.by = i)
            /\ (Pending(i) /\ waitingTimeout[i] = "fired") =>
                  (responseBox.kind = "still" /\ responseBox.by = i)
            /\ Pending(i) => waitingTimeout[i] \in {"armed", "fired"}
            /\ (Validated(i) /\ waitingTimeout[i] = "cleared") =>
                  (pc[i] = "done" /\ responseBox.kind # "still"))
    /\ [][\A i \in Invocations :
            /\ (pc[i] \in {"idle", "done"} /\ pc'[i] = "awaitFetch") =>
                  responseBox' = [kind |-> "thinking", by |-> i,
                                  timerSpan |-> <<0, "s">>, elapsed |-> <<>>,
                                  content |-> <<>>]
            /\ OneShotFired(i) =>
                  /\ Pending(i) /\ Pending(i)'
                  /\ responseBox.kind = "thinking"
                  /\ responseBox'.kind = "still"
                  /\ responseBox'.by = i
                  /\ timer[i] * TickMs <= WaitMs
                  /\ WaitMs <= (timer[i] + 1) * TickMs
            /\ (responseBox'.kind = "still" /\ responseBox.kind # "still"
                  /\ responseBox'.by = i) => OneShotFired(i)
            /\ (waitingTimeout[i] = "fired" /\ waitingTimeout'[i] # "fired") =>
                  pc[i] = "done"
            /\ (waitingTimeout[i] = "cleared" /\ waitingTimeout'[i] # "cleared") =>
                  pc[i] = "done"
            /\ ~(responseBox.kind = "still" /\ responseBox'.kind = "thinking")]_vars

\* An invocation that completed after five ticks, just before its one-shot
\* would have fired.
C12_Witness ==
    \E i \in Invocations :
        /\ Completed(i)
        /\ waitingTimeout[i] = "cleared"
        /\ ticks[i] = 5
        /\ Terminal(responseBox)

\* C13: with one invocation in flight, while it is pending the page shows
\* its loading indicator and the text of the timerSpan is "{n}s" for the n
\* ticks fired so far in this invocation: "0s" right after the call, whatever
\* an earlier submission left; after each tick; and after the one-shot has
\* written the "still working" markup.
C13_SpanShowsTickCount ==
    /\ [](\A i \in Invocations :
            Pending(i) =>
                  /\ Indicator(responseBox)
                  /\ responseBox.by = i
                  /\ responseBox.timerSpan = <<ticks[i], "s">>)
    /\ [][\A i \in Invocations :
            /\ (pc[i] \in {"idle", "done"} /\ Pending(i)') =>
                  responseBox'.timerSpan = <<0, "s">>
            /\ (TickFired(i) /\ Pending(i)) =>
                  responseBox'.timerSpan = <<ticks[i] + 1, "s">>
            /\ OneShotFired(i) =>
                  (responseBox'.kind = "still"
                     /\ responseBox'.timerSpan = <<ticks[i], "s">>)]_vars

\* The one-shot fired before the fifth tick: "still working" shows "4s".
C13_Witness ==
    \E i \in Invocations :
        /\ Pending(i)
        /\ waitingTimeout[i] = "fired"
        /\ ticks[i] = 4
        /\ responseBox.kind = "still"
        /\ responseBox.timerSpan = <<4, "s">>

\* C14: while the call is pending the interval stays active, the one-shot is
\* armed or has fired, the promise is pending and no terminal render of the
\* invocation is on the page; no step that leaves it pending touches the
\* interval or lowers the counter; the one-shot changes only its own handle
\* and the output container; and, the timers running, the counter of a
\* pending call goes on increasing (as far as MaxTicks) for as long as the
\* call stays pending.
C14_PendingCallKeepsTicking ==
    /\ [](\A i \in Invocations :
            Pending(i) =>
                  /\ timerInterval[i] = "active"
                  /\ waitingTimeout[i] \in {"armed", "fired"}
                  /\ promise[i] = "pending"
                  /\ ~(Terminal(responseBox) /\ responseBox.by = i))
    /\ [][\A i \in Invocations :
            /\ (Pending(i) /\ Pending(i)') =>
                  /\ timerInterval'[i] = timerInterval[i]
                  /\ timer'[i] >= timer[i]
                  /\ waitingTimeout'[i] # "cleared"
            /\ OneShotFired(i) =>
                  /\ responseBox.kind = "thinking"
                  /\ responseBox'.kind = "still"
                  /\ <<pc, timer, ticks, timerInterval, promise, fetchLog,
                       queryRes, err, consoleErrors, alerts>>'
                     = <<pc, timer, ticks, timerInterval, promise, fetchLog,
                         queryRes, err, consoleErrors, alerts>>]_vars
    /\ \A i \in Invocations : \A n \in 0..(MaxTicks - 1) :
          (Pending(i) /\ timer[i] = n) ~> (timer[i] > n \/ ~Pending(i))

\* fetch() has not settled after six ticks; the one-shot has fired.
C14_Witness ==
    \E i \in Invocations :
        /\ pc[i] = "awaitFetch"
        /\ ticks[i] = 6
        /\ timerInterval[i] = "active"
        /\ waitingTimeout[i] = "fired"
        /\ responseBox.kind = "still"

\* The step completes the invocation in slot i.
Completes(i) == Pending(i) /\ pc'[i] = "done"

\* C15: with invocations overlapping, a tick of one leaves the counter of
\* every other unchanged; the completion of one clears its own interval and
\* its own one-shot (unless fired) and leaves the counter and both handles
\* of every other as they were; so a pending invocation has its interval
\* active and its one-shot armed or fired whatever the others have done.
C15_TimersAreInvocationLocal ==
    /\ [](\A j \in Invocations :
            Pending(j) =>
                  /\ timerInterval[j] = "active"
                  /\ waitingTimeout[j] \in {"armed", "fired"}
                  /\ timer[j] = ticks[j])
    /\ [][\A i \in Invocations :
            /\ TickFired(i) =>
                  /\ timer'[i] = timer[i] + 1
                  /\ \A j \in Invocations \ {i} :
                        timer'[j] = timer[j] /\ ticks'[j] = ticks[j]
            /\ Completes(i) =>
                  /\ timerInterval'[i] = "cleared"
                  /\ waitingTimeout'[i] =
                        (IF waitingTimeout[i] = "fired" THEN "fired" ELSE "cleared")
                  /\ \A j \in Invocations \ {i} :
                        /\ timer'[j] = timer[j]
                        /\ timerInterval'[j] = timerInterval[j]
                        /\ waitingTimeout'[j] = waitingTimeout[j]]_vars

\* One invocation has completed while the other, three ticks in, is still
\* pending with both timers live.
C15_Witness ==
    \E i, j \in Invocations :
        /\ i # j
        /\ Completed(i)
        /\ timerInterval[i] = "cleared"
        /\ Pending(j)
        /\ timerInterval[j] = "active"
        /\ waitingTimeout[j] = "armed"
        /\ timer[j] = 3
        /\ timer[i] # timer[j]
        /\ Terminal(responseBox)
        /\ responseBox.by = i

\* No invocation is waiting for fetch() or for a body.
AllSettled == \A i \in Invocations : ~Pending(i)

\* C16: when no invocation is pending any more, no interval is active and no
\* one-shot is armed, and if an invocation has completed the page shows a
\* terminal render; every completion writes the terminal render of the
\* completing invocation, so the one on the page is that of the invocation
\* that completed last; and while none is pending the output container
\* changes only by a new submission.
C16_LastCompletionStays ==
    /\ [](AllSettled =>
            /\ \A i \in Invocations :
                  timerInterval[i] # "active" /\ waitingTimeout[i] # "armed"
            /\ (\E i \in Invocations : Completed(i)) =>
                  (Terminal(responseBox) /\ ~Pending(responseBox.by)))
    /\ [][\A i \in Invocations :
            Completes(i) => (Terminal(responseBox') /\ responseBox'.by = i)]_vars
    /\ [][(AllSettled /\ responseBox' # responseBox) =>
            \E i \in Invocations :
                /\ Pending(i)'
                /\ responseBox'.kind = "thinking"
                /\ responseBox'.by = i]_vars

\* Both invocations have completed; the render on the page is that of the
\* first slot, which ran for six ticks, not that of the second.
C16_Witness ==
    /\ NumInv >= 2
    /\ AllSettled
    /\ Completed(1)
    /\ Completed(2)
    /\ timer[1] = 6
    /\ timer[2] = 0
    /\ Terminal(responseBox)
    /\ responseBox.by = 1

====
